---- MODULE Spec2Model ----
(***************************************************************************)
(* Coastal threat alert backend: the rolling z-score detector, the         *)
(* isolation-forest scorer wrapper, the rule-based threat labeler          *)
(* (backend/anomaly_model.py), the /ingest handler (backend/main.py) and   *)
(* the simulator's alert builder (simulation/simulate.py).                 *)
(*                                                                         *)
(* Python floats are modelled as binary floating-point numbers with a      *)
(* Prec-bit significand, round-to-nearest-even and an unbounded exponent   *)
(* (float64 is the same format with a 53-bit significand; its exponent     *)
(* range is never approached by the values used here).  Every arithmetic   *)
(* operation rounds its exact result, as IEEE 754 prescribes.              *)
(***************************************************************************)
EXTENDS Integers, Sequences, FiniteSets, TLC

(* ------------------------------ bounds -------------------------------- *)

\* Significand width of the modelled floating-point format.
Prec == 8

(* ------------------------- floating point ----------------------------- *)

\* A float is [m |-> significand, e |-> exponent] with value m * 2^e; it is
\* either Zero or normalised: 2^(Prec-1) <= |m| < 2^Prec.
Zero == [m |-> 0, e |-> 0]

Abs(i) == IF i < 0 THEN -i ELSE i

Sgn(i) == IF i < 0 THEN -1 ELSE IF i = 0 THEN 0 ELSE 1

Min(a, b) == IF a < b THEN a ELSE b

\* Number of binary digits of n >= 1.
BitLen(n) == CHOOSE k \in 1..31 : n < 2^k

\* Round the exact value i * 2^e to the nearest float, ties to even.
RN(i, e) ==
  IF i = 0 THEN Zero
  ELSE LET a == Abs(i)
           b == BitLen(a)
       IN IF b <= Prec
          THEN [m |-> Sgn(i) * a * 2^(Prec - b), e |-> e - (Prec - b)]
          ELSE LET sh   == b - Prec
                   q    == a \div 2^sh
                   r    == a % 2^sh
                   half == 2^(sh - 1)
                   q2   == IF r > half \/ (r = half /\ q % 2 = 1) THEN q + 1 ELSE q
               IN IF q2 = 2^Prec
                  THEN [m |-> Sgn(i) * 2^(Prec - 1), e |-> e + sh + 1]
                  ELSE [m |-> Sgn(i) * q2, e |-> e + sh]

FNeg(a) == [m |-> -a.m, e |-> a.e]

FAbs(a) == [m |-> Abs(a.m), e |-> a.e]

\* a + b, correctly rounded.  An operand below a quarter ulp of the other
\* cannot change the rounded sum.
FAdd(a, b) ==
  IF a.m = 0 THEN b
  ELSE IF b.m = 0 THEN a
  ELSE IF a.e - b.e >= Prec + 2 THEN a
  ELSE IF b.e - a.e >= Prec + 2 THEN b
  ELSE LET e == Min(a.e, b.e)
       IN RN(a.m * 2^(a.e - e) + b.m * 2^(b.e - e), e)

FSub(a, b) == FAdd(a, FNeg(b))

FMul(a, b) == RN(a.m * b.m, a.e + b.e)

\* a / b, correctly rounded (b is not Zero): Prec+2 quotient bits and a
\* sticky bit for the remainder.
FDiv(a, b) ==
  IF a.m = 0 THEN Zero
  ELSE LET n   == Abs(a.m) * 2^(Prec + 2)
           d   == Abs(b.m)
           q   == n \div d
           st  == IF n % d = 0 THEN 0 ELSE 1
       IN RN(Sgn(a.m) * Sgn(b.m) * (2 * q + st), a.e - b.e - (Prec + 2) - 1)

RECURSIVE ISqrtFrom(_, _, _)
\* Largest r' >= r with r'^2 <= n, trying the bits from `bit` downwards.
ISqrtFrom(n, r, bit) ==
  IF bit = 0 THEN r
  ELSE IF (r + bit) * (r + bit) <= n
       THEN ISqrtFrom(n, r + bit, bit \div 2)
       ELSE ISqrtFrom(n, r, bit \div 2)

\* sqrt(a), correctly rounded (a >= 0).
FSqrt(a) ==
  IF a.m = 0 THEN Zero
  ELSE LET k  == IF (a.e - (Prec + 3)) % 2 = 0 THEN Prec + 3 ELSE Prec + 4
           n  == a.m * 2^k
           r  == ISqrtFrom(n, 0, 2^(Prec + 2))
           st == IF r * r = n THEN 0 ELSE 1
       IN RN(2 * r + st, ((a.e - k) \div 2) - 1)

\* a < b.
FLt(a, b) ==
  IF Sgn(a.m) # Sgn(b.m) THEN Sgn(a.m) < Sgn(b.m)
  ELSE IF a.m = 0 THEN FALSE
  ELSE IF a.m > 0 THEN a.e < b.e \/ (a.e = b.e /\ a.m < b.m)
  ELSE b.e < a.e \/ (a.e = b.e /\ a.m < b.m)

FGt(a, b) == FLt(b, a)

FromInt(i) == RN(i, 0)

RECURSIVE LitBits(_, _, _, _)
\* Long division: k more quotient bits of rem/den appended to q, then the
\* sticky bit.
LitBits(rem, den, q, k) ==
  IF k = 0 THEN 2 * q + (IF rem = 0 THEN 0 ELSE 1)
  ELSE IF 2 * rem >= den
       THEN LitBits(2 * rem - den, den, 2 * q + 1, k - 1)
       ELSE LitBits(2 * rem, den, 2 * q, k - 1)

RECURSIVE RatRN(_, _, _)
\* The float nearest to num * 2^e / den (num >= 0, den > 0).
RatRN(num, den, e) ==
  IF num = 0 THEN Zero
  ELSE IF num < den THEN RatRN(2 * num, den, e - 1)
  ELSE IF num >= 2 * den THEN RatRN(num, 2 * den, e + 1)
  ELSE RN(LitBits(num - den, den, 1, Prec + 1), e - (Prec + 1) - 1)

\* The float a decimal literal num/den denotes.
Lit(num, den) == RatRN(num, den, 0)

(* --------------------- anomaly_model.py: detector --------------------- *)

METRIC_ORDER ==
  << "tide_level_m", "wave_height_m", "wind_speed_ms", "rain_mm",
     "turbidity_NTU", "chlorophyll_mg_m3", "oil_slick_score" >>

Metrics == {METRIC_ORDER[i] : i \in 1..Len(METRIC_ORDER)}

\* dict.get(key, default)
Get(d, key, default) == IF key \in DOMAIN d THEN d[key] ELSE default

\* The capacity the detector is constructed with (window=...).
Window == 11

\* Fewer values than this in a window: warmup.
Warmup == 10

\* The stand-in for a zero standard deviation.
Eps == Lit(1, 1000000)

\* A window that never evicts.
DequeAppend_Unbounded(buf, v) == Append(buf, v)

\* deque(maxlen=window).append(x)
DequeAppend(buf, v) ==
  IF Len(buf) >= Window THEN Append(Tail(buf), v) ELSE Append(buf, v)

RECURSIVE SeqSum(_, _, _)
\* acc + a[i] + a[i+1] + ... + a[Len(a)], added left to right.
SeqSum(a, i, acc) ==
  IF i > Len(a) THEN acc ELSE SeqSum(a, i + 1, FAdd(acc, a[i]))

RECURSIVE Lane(_, _, _, _)
\* One of the eight accumulators of the unrolled summation loop: a[j] plus
\* every eighth element after it, within the first `full` elements.
Lane(a, j, full, acc) ==
  IF j > full THEN acc ELSE Lane(a, j + 8, full, FAdd(acc, a[j]))

\* numpy's add.reduce over a contiguous float array of at most 128
\* elements: fewer than 8 are added left to right; otherwise eight lane
\* sums are combined pairwise and the remaining n % 8 elements added.
PairwiseSum(a) ==
  LET n == Len(a)
  IN IF n < 8 THEN SeqSum(a, 1, Zero)
     ELSE LET full == n - (n % 8)
              r == [j \in 1..8 |-> Lane(a, j + 8, full, a[j])]
              res == FAdd(FAdd(FAdd(r[1], r[2]), FAdd(r[3], r[4])),
                          FAdd(FAdd(r[5], r[6]), FAdd(r[7], r[8])))
          IN SeqSum(a, full + 1, res)

\* arr.mean()
Mean(a) == FDiv(PairwiseSum(a), FromInt(Len(a)))

\* arr.std(ddof=1): the mean, the squared deviations, their sum over n-1,
\* the square root.
Std(a) ==
  LET mu == Mean(a)
      sq == [i \in 1..Len(a) |-> LET d == FSub(a[i], mu) IN FMul(d, d)]
  IN FSqrt(FDiv(PairwiseSum(sq), FromInt(Len(a) - 1)))

\* A warmup one update shorter.
ZScore_ShortWarmup(buf, v) ==
  IF Len(buf) < Warmup - 1 THEN Zero
  ELSE LET mu == Mean(buf)
           s0 == Std(buf)
           sd == IF s0 = Zero THEN Eps ELSE s0
       IN FDiv(FSub(v, mu), sd)

\* The z-score update computes for a window buf that already holds v.
ZScore(buf, v) ==
  IF Len(buf) < Warmup THEN Zero
  ELSE LET mu == Mean(buf)
           s0 == Std(buf)
           sd == IF s0 = Zero THEN Eps ELSE s0
       IN FDiv(FSub(v, mu), sd)

\* One set of windows, keyed by metric, for all stations.
update_SharedWindows(bufs, station_id, metrics) ==
  LET nb == [m \in Metrics |->
               DequeAppend(bufs[station_id][m], Get(metrics, m, Zero))]
  IN [buffers |-> [s \in DOMAIN bufs |-> nb],
      z |-> [m \in Metrics |-> ZScore(nb[m], Get(metrics, m, Zero))]]

\* RollingZScoreDetector.update(station_id, metrics) on the windows bufs
\* (station -> metric -> window): the windows afterwards and the returned
\* z-scores.
update(bufs, station_id, metrics) ==
  LET nb == [m \in Metrics |->
               DequeAppend(bufs[station_id][m], Get(metrics, m, Zero))]
  IN [buffers |-> [bufs EXCEPT ![station_id] = nb],
      z |-> [m \in Metrics |-> ZScore(nb[m], Get(metrics, m, Zero))]]

(* ---------------------- anomaly_model.py: scorer ----------------------- *)

One == FromInt(1)

\* np.clip(v, lo, hi)
Clip(v, lo, hi) == IF FLt(v, lo) THEN lo ELSE IF FGt(v, hi) THEN hi ELSE v

\* What the file at the model path can be.
Artifacts == {"missing", "corrupt", "valid"}

\* IFDetector.load: joblib.load raises on a path that does not exist and on
\* bytes it cannot unpickle; nothing in load catches it.
load(file) ==
  IF file = "valid" THEN [raised |-> FALSE, clf |-> "fitted"]
  ELSE [raised |-> TRUE, clf |-> "None"]

\* IFDetector.__init__(model_path): clf = None, then load when a path is
\* given and exists.
IFDetector(pathGiven, file) ==
  IF pathGiven /\ file # "missing" THEN load(file)
  ELSE [raised |-> FALSE, clf |-> "None"]

\* Values score_samples of a fitted forest returns (the negated isolation
\* score, in [-1, 0)); the forest itself is not constructed here.
RawScores == {FNeg(Lit(2, 5)), FNeg(Lit(3, 4))}

\* IFDetector.score, raw being what clf.score_samples returns for the vector
\* of the sample's metrics.
score(c, metrics, raw) ==
  IF c = "None" THEN Zero
  ELSE Clip(FDiv(FSub(Lit(1, 2), raw), FromInt(2)), Zero, One)

(* ---------------------- anomaly_model.py: labeler ---------------------- *)

AppendIf(cond, labels, l) == IF cond THEN Append(labels, l) ELSE labels

\* The fallback label added whatever the first three rules gave.
label_threat_GenericAlways(metrics, z, if_score) ==
  LET az(m) == FAbs(Get(z, m, Zero))
      l1 == AppendIf(/\ FGt(az("tide_level_m"), Lit(5, 2))
                     /\ FGt(az("wave_height_m"), Lit(5, 2))
                     /\ FGt(az("wind_speed_ms"), FromInt(2)),
                     << >>, "possible_flooding")
      l2 == AppendIf(/\ FGt(az("chlorophyll_mg_m3"), FromInt(3))
                     /\ FGt(az("turbidity_NTU"), FromInt(2)),
                     l1, "possible_algal_bloom")
      l3 == AppendIf(\/ FGt(Get(metrics, "oil_slick_score", Zero), Lit(2, 5))
                     \/ FGt(az("oil_slick_score"), Lit(7, 2)),
                     l2, "possible_oil_spill")
  IN AppendIf(FGt(if_score, Lit(3, 4)), l3, "generic_anomaly")

label_threat(metrics, z, if_score) ==
  LET az(m) == FAbs(Get(z, m, Zero))
      l1 == AppendIf(/\ FGt(az("tide_level_m"), Lit(5, 2))
                     /\ FGt(az("wave_height_m"), Lit(5, 2))
                     /\ FGt(az("wind_speed_ms"), FromInt(2)),
                     << >>, "possible_flooding")
      l2 == AppendIf(/\ FGt(az("chlorophyll_mg_m3"), FromInt(3))
                     /\ FGt(az("turbidity_NTU"), FromInt(2)),
                     l1, "possible_algal_bloom")
      l3 == AppendIf(\/ FGt(Get(metrics, "oil_slick_score", Zero), Lit(2, 5))
                     \/ FGt(az("oil_slick_score"), Lit(7, 2)),
                     l2, "possible_oil_spill")
  IN AppendIf(FGt(if_score, Lit(3, 4)) /\ l3 = << >>, l3, "generic_anomaly")

\* x in labels
In(l, labels) == \E i \in 1..Len(labels) : labels[i] = l

(* ------------------------- main.py: /ingest ---------------------------- *)

\* The severity rules with the algal-bloom test first.
IngestSeverity_BloomFirst(labels) ==
  IF In("possible_algal_bloom", labels) THEN "medium"
  ELSE IF In("possible_oil_spill", labels) \/ In("possible_flooding", labels) THEN "high"
  ELSE "low"

\* The severity the /ingest handler derives from the labels.
IngestSeverity(labels) ==
  IF In("possible_oil_spill", labels) \/ In("possible_flooding", labels) THEN "high"
  ELSE IF In("possible_algal_bloom", labels) THEN "medium"
  ELSE "low"

\* The confidence the /ingest handler stores: 0.5, overwritten by the score.
IngestConfidence(if_score) == if_score

\* Any anomaly field counts as a flag.
IsFlagged_AnyAnomaly(an) == an # << >>

\* payload.anomaly and payload.anomaly.get("is_anomaly")
IsFlagged(an) == an # << >> /\ Get(an[1], "is_anomaly", FALSE)

\* payload.anomaly.get("labels", [])
PayloadLabels(an) == Get(an[1], "labels", << >>)

\* The detection branch of the handler, u being what det_z.update returned.
DetectLabels(u, c, metrics, raw) ==
  label_threat(metrics, u.z, score(c, metrics, raw))

\* The alert row the handler inserts for a non-empty label list.
AlertRow(station, labels, c, metrics, raw) ==
  [station_id |-> station, threat_type |-> labels[1],
   severity |-> IngestSeverity(labels),
   confidence |-> IngestConfidence(score(c, metrics, raw))]

(* ----------------------- simulation/simulate.py ------------------------ *)

\* max(a, b)
FMax(a, b) == IF FLt(a, b) THEN b ELSE a

\* round(f, 3): the exact value of f rounded half-even to a multiple of
\* 1/1000, and the float nearest to that decimal.
Round3(f) ==
  IF f.m = 0 THEN Zero
  ELSE LET a  == Abs(f.m) * 1000
           k  == IF f.e >= 0 THEN a * 2^f.e
                 ELSE IF -f.e > 30 THEN 0
                 ELSE LET q == a \div 2^(-f.e)
                          r == a % 2^(-f.e)
                          half == 2^(-f.e - 1)
                      IN IF r > half \/ (r = half /\ q % 2 = 1) THEN q + 1 ELSE q
           v  == RatRN(k, 1000, 0)
       IN IF f.m < 0 THEN FNeg(v) ELSE v

\* build_ingest_payload: the fields build_alert and /ingest read.
build_ingest_payload(station, metrics, zscores, if_score, labels) ==
  [station_id |-> station,
   metrics |-> metrics,
   anomaly |-> [is_anomaly |-> labels # << >>,
                detectors |-> [iforest |-> Round3(if_score)],
                labels |-> labels]]

build_alert(station, ingest_payload, labels) ==
  [station_id |-> station,
   threat_type |-> IF labels # << >> THEN labels[1] ELSE "generic_anomaly",
   severity |-> IF In("possible_oil_spill", labels) \/ In("possible_flooding", labels)
                THEN "high"
                ELSE IF In("possible_algal_bloom", labels) THEN "medium"
                ELSE "low",
   confidence |-> FMax(Lit(1, 2), ingest_payload.anomaly.detectors.iforest)]

(* --------------------------- the inputs -------------------------------- *)

Stations == {"IN-GJ-001", "IN-MH-002"}

SampleNames == {"base", "storm", "spill"}

\* A station's usual reading.
BaseSample ==
  [m \in Metrics |->
     CASE m = "tide_level_m" -> Lit(6, 5)
       [] m = "wave_height_m" -> Lit(3, 2)
       [] m = "wind_speed_ms" -> FromInt(6)
       [] m = "rain_mm" -> Zero
       [] m = "turbidity_NTU" -> FromInt(4)
       [] m = "chlorophyll_mg_m3" -> Lit(3, 2)
       [] OTHER -> Lit(3, 100)]

\* A reading during a storm.
StormSample ==
  [m \in Metrics |->
     CASE m = "tide_level_m" -> Lit(21, 10)
       [] m = "wave_height_m" -> Lit(13, 5)
       [] m = "wind_speed_ms" -> Lit(25, 2)
       [] m = "rain_mm" -> FromInt(10)
       [] m = "turbidity_NTU" -> FromInt(4)
       [] m = "chlorophyll_mg_m3" -> Lit(3, 2)
       [] OTHER -> Lit(3, 100)]

\* A spill report, which carries two metrics only.
SpillSample ==
  [m \in {"turbidity_NTU", "oil_slick_score"} |->
     IF m = "turbidity_NTU" THEN FromInt(5) ELSE Lit(1, 2)]

\* The readings a station sends.
SampleOf(name) ==
  IF name = "base" THEN BaseSample
  ELSE IF name = "storm" THEN StormSample
  ELSE SpillSample

\* payload.anomaly: absent, not flagged, flagged without labels, flagged.
Anomalies ==
  { << >>,
    << [is_anomaly |-> FALSE, labels |-> << "possible_flooding" >>] >>,
    << [is_anomaly |-> TRUE] >>,
    << [is_anomaly |-> TRUE,
        labels |-> << "possible_algal_bloom", "generic_anomaly" >>] >> }

\* Updates one station receives in a run: enough to fill a window and
\* evict from it.
MaxUpdates == Window + 1

\* Readings in a run that depart from one station sending its usual reading:
\* a reading other than "base", a reading of a station other than the
\* busiest.
MaxDeviations == 1

(* ----------------------------- state ----------------------------------- *)

VARIABLES
  artifact,    \* the file at IFOREST_PATH
  phase,       \* "boot", "serving", or "crashed" (module import raised)
  clf,         \* det_if.clf
  buffers,     \* det_z.buffers: station -> metric -> window
  hist,        \* per station, the samples update was called with
  lastZ,       \* per station, what its latest update returned
  lastReq,     \* <<>> or the latest request
  newReadings, \* the rows the latest request added to sensor_readings
  newAlerts,   \* the rows the latest request added to alerts
  lastResp,    \* <<>> or the latest response
  tasks,       \* the handler coroutines of the event loop, by arrival
  running,     \* 0, or the coroutine the event loop is executing
  lab          \* one evaluation of the labeler and of the severity rules

vars == << artifact, phase, clf, buffers, hist, lastZ, lastReq, newReadings,
           newAlerts, lastResp, tasks, running, lab >>

NoLab == [in |-> << >>, src |-> "none", labels |-> << >>, sev |-> << >>,
          alert |-> << >>]

Init ==
  /\ artifact \in Artifacts
  /\ phase = "boot"
  /\ clf = "None"
  /\ buffers = [s \in Stations |-> [m \in Metrics |-> << >>]]
  /\ hist = [s \in Stations |-> << >>]
  /\ lastZ = [s \in Stations |-> [m \in Metrics |-> Zero]]
  /\ lastReq = << >>
  /\ newReadings = << >>
  /\ newAlerts = << >>
  /\ lastResp = << >>
  /\ tasks = << >>
  /\ running = 0
  /\ lab = NoLab

\* main.py module level: det_z and det_if are constructed; an exception
\* here ends the import, and the service never serves.
Startup ==
  /\ phase = "boot"
  /\ LET r == IFDetector(artifact # "missing", artifact)
     IN /\ phase' = IF r.raised THEN "crashed" ELSE "serving"
        /\ clf' = r.clf
  /\ UNCHANGED << artifact, buffers, hist, lastZ, lastReq, newReadings,
                  newAlerts, lastResp, tasks, running, lab >>

NonBase(h) == Cardinality({i \in 1..Len(h) : h[i] # "base"})

RECURSIVE SumOver(_, _)
SumOver(f, S) ==
  IF S = {} THEN 0
  ELSE LET s == CHOOSE s \in S : TRUE IN f[s] + SumOver(f, S \ {s})

\* How far the readings h (station -> samples) depart from one station
\* sending "base" only.
Deviations(h) ==
  LET len == [s \in Stations |-> Len(h[s])]
      busiest == CHOOSE s \in Stations : \A t \in Stations : len[t] <= len[s]
  IN SumOver([s \in Stations |-> NonBase(h[s])], Stations)
       + SumOver(len, Stations) - len[busiest]

\* The traffic a run admits: pre-flagged storm reports at any time, and
\* unflagged readings within the bounds.
Admits(s, name, flagged) ==
  IF flagged THEN name = "storm"
  ELSE /\ Len(hist[s]) < MaxUpdates
       /\ Deviations([hist EXCEPT ![s] = Append(@, name)]) <= MaxDeviations

\* The rows the handler adds to sensor_readings, first thing.
StoreReading(s, flagged) == << [station_id |-> s] >>

\* The end of the handler: an alert row and "alert_created" for a non-empty
\* label list, "ok" otherwise.
Respond(s, metrics, labels, raw) ==
  IF labels # << >>
  THEN /\ newAlerts' = << AlertRow(s, labels, clf, metrics, raw) >>
       /\ lastResp' = << [status |-> "alert_created", labels |-> labels] >>
  ELSE /\ newAlerts' = << >>
       /\ lastResp' = << [status |-> "ok", labels |-> labels] >>

\* What clf.score_samples may return for the request's reading.
Oracle == IF clf = "None" THEN {Zero} ELSE RawScores

\* POST /ingest for station s with reading `name`, start to finish (the
\* handler never awaits): the reading is stored; a pre-flagged payload
\* supplies its own labels, any other goes through detection.
ingest(s, name) ==
  /\ phase = "serving"
  /\ LET metrics == SampleOf(name)
     IN \/ \E an \in Anomalies, raw \in Oracle :
             /\ IsFlagged(an)
             /\ Admits(s, name, TRUE)
             /\ newReadings' = StoreReading(s, TRUE)
             /\ lastReq' = << [station_id |-> s, sample |-> name, anomaly |-> an] >>
             /\ UNCHANGED << buffers, hist, lastZ >>
             /\ Respond(s, metrics, PayloadLabels(an), raw)
        \/ /\ Admits(s, name, FALSE)
           /\ \E u \in {update(buffers, s, metrics)} :
                /\ buffers' = u.buffers
                /\ hist' = [hist EXCEPT ![s] = Append(@, name)]
                /\ lastZ' = [lastZ EXCEPT ![s] = u.z]
                /\ \E an \in Anomalies, raw \in Oracle :
                     /\ ~IsFlagged(an)
                     /\ newReadings' = StoreReading(s, FALSE)
                     /\ lastReq' = << [station_id |-> s, sample |-> name,
                                       anomaly |-> an] >>
                     /\ Respond(s, metrics, DetectLabels(u, clf, metrics, raw), raw)
  /\ UNCHANGED << artifact, phase, clf, tasks, running, lab >>

Next ==
  \/ Startup
  \/ \E s \in Stations, name \in SampleNames : ingest(s, name)

Spec == Init /\ [][Next]_vars

(* ------------- the labeler and the severity rules, alone --------------- *)

\* z-scores on both sides of every threshold of label_threat, and on them.
LabelZs ==
  { [m \in Metrics |->
       CASE m = "tide_level_m" -> t
         [] m = "wave_height_m" -> w
         [] m = "wind_speed_ms" -> d
         [] m = "chlorophyll_mg_m3" -> c
         [] m = "turbidity_NTU" -> u
         [] m = "oil_slick_score" -> o
         [] OTHER -> Zero] :
     t \in {Lit(5, 2), FNeg(FromInt(3))},
     w \in {Zero, FromInt(3)},
     d \in {FromInt(2), FNeg(Lit(5, 2))},
     c \in {FromInt(3), FNeg(Lit(7, 2))},
     u \in {Zero, Lit(5, 2)},
     o \in {Lit(7, 2), FNeg(FromInt(4))} }

\* Readings with and without an oil-slick score.
LabelMetrics ==
  { << >>,
    [m \in {"oil_slick_score"} |-> Lit(2, 5)],
    [m \in {"oil_slick_score"} |-> Lit(1, 2)] }

LabelScores == {Lit(1, 5), Lit(3, 4), Lit(9, 10)}

\* The label lists a pre-flagged payload may carry.
PayloadLists ==
  { << "possible_flooding" >>,
    << "possible_algal_bloom" >>,
    << "generic_anomaly" >>,
    << "possible_algal_bloom", "possible_flooding" >>,
    << "generic_anomaly", "possible_oil_spill" >>,
    << "sensor_fault" >> }

InitLabel ==
  /\ artifact = "missing"
  /\ phase = "serving"
  /\ clf = "None"
  /\ buffers = [s \in Stations |-> [m \in Metrics |-> << >>]]
  /\ hist = [s \in Stations |-> << >>]
  /\ lastZ = [s \in Stations |-> [m \in Metrics |-> Zero]]
  /\ lastReq = << >>
  /\ newReadings = << >>
  /\ newAlerts = << >>
  /\ lastResp = << >>
  /\ tasks = << >>
  /\ running = 0
  /\ \/ \E z \in LabelZs, mt \in LabelMetrics, sc \in LabelScores :
          lab = [NoLab EXCEPT !.in = << [metrics |-> mt, z |-> z, if_score |-> sc] >>]
     \/ \E l \in PayloadLists, sc \in LabelScores :
          lab = [NoLab EXCEPT !.in = << [payload |-> l, if_score |-> sc] >>]

\* The labeler evaluations touch nothing of the service.
LabelFrame ==
  UNCHANGED << artifact, phase, clf, buffers, hist, lastZ, lastReq,
               newReadings, newAlerts, lastResp, tasks, running >>

\* labels = label_threat(metrics, z, if_score)
ApplyLabelThreat ==
  /\ lab.src = "none"
  /\ "z" \in DOMAIN lab.in[1]
  /\ lab' = [lab EXCEPT !.src = "label_threat",
                        !.labels = label_threat(lab.in[1].metrics, lab.in[1].z,
                                                lab.in[1].if_score)]
  /\ LabelFrame

\* labels = payload.anomaly.get("labels", [])
TakePayloadLabels ==
  /\ lab.src = "none"
  /\ "payload" \in DOMAIN lab.in[1]
  /\ lab' = [lab EXCEPT !.src = "payload", !.labels = lab.in[1].payload]
  /\ LabelFrame

\* The severity lines of the /ingest handler, run when labels is not empty.
ApplyIngestSeverity ==
  /\ lab.src # "none"
  /\ lab.labels # << >>
  /\ lab.sev = << >>
  /\ lab' = [lab EXCEPT !.sev = << IngestSeverity(lab.labels) >>]
  /\ LabelFrame

\* The simulator's build_alert, called when labels is not empty.
ApplyBuildAlert ==
  /\ lab.src # "none"
  /\ lab.labels # << >>
  /\ lab.alert = << >>
  /\ LET st == CHOOSE s \in Stations : TRUE
         pl == build_ingest_payload(st, << >>, << >>, lab.in[1].if_score, lab.labels)
     IN lab' = [lab EXCEPT !.alert = << build_alert(st, pl, lab.labels) >>]
  /\ LabelFrame

NextLabel ==
  \/ ApplyLabelThreat
  \/ TakePayloadLabels
  \/ ApplyIngestSeverity
  \/ ApplyBuildAlert

SpecLabel == InitLabel /\ [][NextLabel]_vars

(* ------------------ /ingest on the event loop, stepwise ----------------- *)

\* Requests in flight in a run.
MaxTasks == 2

\* Readings the busy station has sent when the run starts: one short of the
\* warmup, so that the next updates compute z-scores.
PreUpdates == Warmup - 1

\* A station's windows after n <= Window updates with its usual reading.
Warmed(n) == [m \in Metrics |-> [i \in 1..n |-> SampleOf("base")[m]]]

BusyStation == CHOOSE s \in Stations : TRUE

\* The windows when the stepwise run starts.
AsyncBuffers ==
  [s \in Stations |-> IF s = BusyStation THEN Warmed(PreUpdates) ELSE Warmed(0)]

InitAsync ==
  /\ artifact \in {"missing", "valid"}
  /\ phase = "serving"
  /\ clf = IFDetector(artifact # "missing", artifact).clf
  /\ buffers = AsyncBuffers
  /\ hist = [s \in Stations |->
               IF s = BusyStation THEN [i \in 1..PreUpdates |-> "base"] ELSE << >>]
  /\ lastZ = [s \in Stations |-> [m \in Metrics |-> Zero]]
  /\ lastReq = << >>
  /\ newReadings = << >>
  /\ newAlerts = << >>
  /\ lastResp = << >>
  /\ tasks = << >>
  /\ running = 0
  /\ lab = NoLab

\* A request reaches the server: its handler coroutine is scheduled.  The
\* payloads are those without an anomaly field and the pre-flagged storm
\* reports.
Arrive(s, name, an) ==
  /\ Len(tasks) < MaxTasks
  /\ an = << >> \/ (IsFlagged(an) /\ name = "storm" /\ PayloadLabels(an) # << >>)
  /\ tasks' = Append(tasks, [station_id |-> s, sample |-> name, anomaly |-> an,
                             pc |-> "queued", k |-> 1, z |-> << >>,
                             labels |-> << >>, overlapped |-> FALSE])
  /\ UNCHANGED << artifact, phase, clf, buffers, hist, lastZ, lastReq,
                  newReadings, newAlerts, lastResp, running, lab >>

\* A loop that may switch coroutines at any step.
CanRun_Preemptive(i) == TRUE

\* Whether the event loop may execute coroutine i now: `async def ingest`
\* has no await, so once started a handler keeps the loop until it returns.
CanRun(i) == running = 0 \/ running = i

\* The handler starts: it stores the reading and takes the branch on
\* payload.anomaly.
Begin(i) ==
  /\ i \in 1..Len(tasks)
  /\ tasks[i].pc = "queued"
  /\ CanRun(i)
  /\ running' = i
  /\ LET tk == tasks[i]
         flagged == IsFlagged(tk.anomaly)
         waiting == \E j \in 1..Len(tasks) : j # i /\ tasks[j].pc \notin {"done"}
     IN /\ newReadings' = StoreReading(tk.station_id, flagged)
        /\ lastReq' = << [station_id |-> tk.station_id, sample |-> tk.sample,
                          anomaly |-> tk.anomaly] >>
        /\ tasks' = [tasks EXCEPT ![i].pc = IF flagged THEN "respond" ELSE "update",
                                  ![i].labels = IF flagged THEN PayloadLabels(tk.anomaly)
                                                ELSE << >>,
                                  ![i].overlapped = waiting]
  /\ UNCHANGED << artifact, phase, clf, buffers, hist, lastZ, newAlerts,
                  lastResp, lab >>

\* One iteration of update's loop over METRIC_ORDER: the append, the
\* z-score of the metric; after the last one update returns.
UpdateStep(i) ==
  /\ i \in 1..Len(tasks)
  /\ tasks[i].pc = "update"
  /\ CanRun(i)
  /\ \E s \in {tasks[i].station_id}, m \in {METRIC_ORDER[tasks[i].k]} :
       \E v \in {Get(SampleOf(tasks[i].sample), m, Zero)} :
         \E nb \in {DequeAppend(buffers[s][m], v)} :
           \E zm \in {ZScore(nb, v)} :
             \E z \in {[n \in DOMAIN tasks[i].z \cup {m} |->
                          IF n = m THEN zm ELSE tasks[i].z[n]]} :
               /\ buffers' = [buffers EXCEPT ![s][m] = nb]
               /\ hist' = IF tasks[i].k = 1
                          THEN [hist EXCEPT ![s] = Append(@, tasks[i].sample)]
                          ELSE hist
               /\ IF tasks[i].k = Len(METRIC_ORDER)
                  THEN /\ lastZ' = [lastZ EXCEPT ![s] = z]
                       /\ tasks' = [tasks EXCEPT ![i].z = z, ![i].pc = "respond"]
                  ELSE /\ lastZ' = lastZ
                       /\ tasks' = [tasks EXCEPT ![i].z = z, ![i].k = @ + 1]
  /\ UNCHANGED << artifact, phase, clf, lastReq, newReadings, newAlerts,
                  lastResp, running, lab >>

\* The rest of the handler: the score and the labels on the detection
\* branch, the alert row, the response.
RespondStep(i) ==
  /\ i \in 1..Len(tasks)
  /\ tasks[i].pc = "respond"
  /\ CanRun(i)
  /\ running' = 0
  /\ \E raw \in Oracle :
       LET tk == tasks[i]
           metrics == SampleOf(tk.sample)
           labels == IF IsFlagged(tk.anomaly) THEN tk.labels
                     ELSE label_threat(metrics, tk.z, score(clf, metrics, raw))
       IN /\ Respond(tk.station_id, metrics, labels, raw)
          /\ tasks' = [tasks EXCEPT ![i].pc = "done", ![i].labels = labels]
  /\ UNCHANGED << artifact, phase, clf, buffers, hist, lastZ, lastReq,
                  newReadings, lab >>

NextAsync ==
  \/ \E s \in Stations, name \in SampleNames, an \in Anomalies : Arrive(s, name, an)
  \/ \E i \in 1..MaxTasks : Begin(i)
  \/ \E i \in 1..MaxTasks : UpdateStep(i)
  \/ \E i \in 1..MaxTasks : RespondStep(i)

SpecAsync == InitAsync /\ [][NextAsync]_vars

(* ======================= properties of the service ===================== *)

\* The values of metric m in the readings h of one station, a missing
\* metric counting as 0.0.
Sent(h, m) == [i \in 1..Len(h) |-> Get(SampleOf(h[i]), m, Zero)]

\* The last n elements of a.
LastN(a, n) == SubSeq(a, Len(a) - n + 1, Len(a))

\* C1: after k updates of a station, each of its metric windows holds
\* min(k, window) values, the most recent ones, in arrival order.
C1_WindowHoldsLatest ==
  \A s \in Stations, m \in Metrics :
    LET k == Len(hist[s])
    IN /\ Len(buffers[s][m]) = Min(k, Window)
       /\ buffers[s][m] = LastN(Sent(hist[s], m), Min(k, Window))

\* A station has been updated more often than a window holds, and the value
\* that left the window differs from those that stayed.
C1_Evicted ==
  \E s \in Stations :
    /\ Len(hist[s]) > Window
    /\ hist[s][1] # "base"
    /\ Len(buffers[s]["tide_level_m"]) = Window

\* C2: each of the first 9 updates of a station returns 0.0 for every
\* metric, whatever the values.
C2_WarmupReturnsZero ==
  \A s \in Stations :
    Len(hist[s]) \in 1..9 => \A m \in Metrics : lastZ[s][m] = Zero

\* The 9th update of a station, with a reading unlike the ones before it.
C2_NinthUpdate ==
  \E s \in Stations :
    /\ Len(hist[s]) = 9
    /\ hist[s][9] = "spill"
    /\ lastReq # << >> /\ lastReq[1].station_id = s
    /\ ~IsFlagged(lastReq[1].anomaly)

\* The 10th update of a station returns a non-zero z-score.
C2_TenthUpdateScores ==
  \E s \in Stations, m \in Metrics : Len(hist[s]) = 10 /\ lastZ[s][m] # Zero

\* C3: with a model artifact that is missing or corrupt, constructing the
\* scorer does not raise: the service comes up with an unfit scorer, whose
\* score is 0.0 for every input.
C3_LoadFailureDegrades ==
  (phase # "boot" /\ artifact \in {"missing", "corrupt"}) =>
    /\ phase = "serving"
    /\ clf = "None"
    /\ \A name \in SampleNames, raw \in RawScores :
         score(clf, SampleOf(name), raw) = Zero

\* The artifact is missing and the service serves with an unfit scorer.
C3_MissingArtifactServes ==
  artifact = "missing" /\ phase = "serving" /\ clf = "None" /\ newAlerts # << >>

\* C4: no alert row is stored with a confidence below 0.5.
C4_ConfidenceFloored ==
  \A i \in 1..Len(newAlerts) : ~FLt(newAlerts[i].confidence, Lit(1, 2))

\* C9: a metric whose window holds at least 10 values, all of them the same,
\* has z-score 0.0.
C9_ConstantGivesZero ==
  \A s \in Stations, m \in Metrics :
    LET w == buffers[s][m]
    IN (Len(w) >= 10 /\ \A i \in 1..Len(w) : w[i] = w[1]) => lastZ[s][m] = Zero

\* A step is a request for station s handled by /ingest.
Handled(s) ==
  /\ phase = "serving"
  /\ vars' # vars
  /\ lastReq' # << >>
  /\ lastReq'[1].station_id = s

\* payload.anomaly is there and its is_anomaly is true.
Truthy(an) ==
  an # << >> /\ "is_anomaly" \in DOMAIN an[1] /\ an[1].is_anomaly = TRUE

\* C10: every request handled by /ingest stores exactly one reading; a
\* pre-flagged one is answered with the labels of its payload and leaves all
\* windows unchanged; any other gives each of the station's 7 windows
\* exactly one new value, that of the request's reading.
C10_FlaggedSkipsUpdate ==
  [][\A s \in Stations :
       Handled(s) =>
         /\ Len(newReadings') = 1
         /\ newReadings'[1].station_id = s
         /\ LET an == lastReq'[1].anomaly
            IN IF Truthy(an)
               THEN /\ buffers' = buffers
                    /\ lastResp'[1].labels =
                         IF "labels" \in DOMAIN an[1] THEN an[1].labels ELSE << >>
               ELSE \A m \in Metrics :
                      LET old == buffers[s][m]
                          kept == IF Len(old) >= Window THEN Tail(old) ELSE old
                      IN buffers'[s][m] =
                           Append(kept, Get(SampleOf(lastReq'[1].sample), m, Zero))
    ]_vars

\* A pre-flagged request has been handled for a station whose windows hold
\* values, and an alert was stored for it.
C10_FlaggedHandled ==
  /\ lastReq # << >>
  /\ Truthy(lastReq[1].anomaly)
  /\ Len(buffers[lastReq[1].station_id]["tide_level_m"]) >= 2
  /\ newAlerts # << >>
  /\ Len(newReadings) = 1

\* What station s holds when its own samples are all there is: the last
\* min(k, window) values of each metric, and of the k-th update the z-score
\* of its value within them.
Own(s) ==
  LET k == Len(hist[s])
      w == [m \in Metrics |-> LastN(Sent(hist[s], m), Min(k, Window))]
  IN [buffers |-> w,
      z |-> [m \in Metrics |->
               IF k = 0 THEN Zero ELSE ZScore(w[m], w[m][Len(w[m])])]]

\* C8: a request for station a leaves the windows and the latest z-scores
\* of every other station unchanged, and the windows and z-scores of each
\* station are determined by the samples submitted for it, however the
\* updates of other stations were interleaved with them.
C8_StationsIndependent ==
  /\ [][\A a \in Stations :
          Handled(a) =>
            \A b \in Stations \ {a} :
              buffers'[b] = buffers[b] /\ lastZ'[b] = lastZ[b]]_vars
  /\ [](\A b \in Stations :
          LET r == Own(b)
          IN buffers[b] = r.buffers /\ lastZ[b] = r.z)

\* A station past its warmup holds a non-zero z-score, and the latest
\* update was one of the other station.
C8_Interleaved ==
  \E a \in Stations, b \in Stations :
    /\ a # b
    /\ Len(hist[a]) >= 10
    /\ \E m \in Metrics : lastZ[a][m] # Zero
    /\ Len(hist[b]) >= 1
    /\ lastReq # << >>
    /\ lastReq[1].station_id = b
    /\ ~Truthy(lastReq[1].anomaly)

\* The four labels, in rule order.
RuleOrder ==
  << "possible_flooding", "possible_algal_bloom", "possible_oil_spill",
     "generic_anomaly" >>

\* C5: label_threat returns exactly the labels whose rule matches, in rule
\* order: flooding, algal bloom and oil spill each by its own thresholds
\* whatever the other rules gave, generic_anomaly iff none of those three
\* matched and if_score > 0.75.
C5_LabelsInRuleOrder ==
  lab.src = "label_threat" =>
    LET i == lab.in[1]
        zv(m) == IF m \in DOMAIN i.z THEN i.z[m] ELSE Zero
        Beyond(m, t) == FGt(zv(m), t) \/ FLt(zv(m), FNeg(t))
        flood == /\ Beyond("tide_level_m", Lit(5, 2))
                 /\ Beyond("wave_height_m", Lit(5, 2))
                 /\ Beyond("wind_speed_ms", FromInt(2))
        bloom == /\ Beyond("chlorophyll_mg_m3", FromInt(3))
                 /\ Beyond("turbidity_NTU", FromInt(2))
        oil == \/ /\ "oil_slick_score" \in DOMAIN i.metrics
                  /\ FGt(i.metrics["oil_slick_score"], Lit(2, 5))
               \/ Beyond("oil_slick_score", Lit(7, 2))
        generic == ~flood /\ ~bloom /\ ~oil /\ FGt(i.if_score, Lit(3, 4))
        Matched(l) == \/ l = "possible_flooding" /\ flood
                      \/ l = "possible_algal_bloom" /\ bloom
                      \/ l = "possible_oil_spill" /\ oil
                      \/ l = "generic_anomaly" /\ generic
    IN /\ lab.labels = SelectSeq(RuleOrder, Matched)
       /\ In("generic_anomaly", lab.labels) => Len(lab.labels) = 1
       /\ \A j, k \in 1..Len(lab.labels) : lab.labels[j] = lab.labels[k] => j = k

\* The first three rules matched together, with if_score above 0.75.
C5_AllThreeRules ==
  /\ lab.src = "label_threat"
  /\ lab.labels = << "possible_flooding", "possible_algal_bloom", "possible_oil_spill" >>
  /\ FGt(lab.in[1].if_score, Lit(3, 4))

\* The severity of a label list, by the rules.
SeverityRule(labels) ==
  LET has == {labels[i] : i \in 1..Len(labels)}
  IN IF has \cap {"possible_oil_spill", "possible_flooding"} # {} THEN "high"
     ELSE IF "possible_algal_bloom" \in has THEN "medium"
     ELSE "low"

\* C6: the severity /ingest derives, and the one build_alert derives, is
\* high iff the labels hold possible_oil_spill or possible_flooding,
\* otherwise medium iff they hold possible_algal_bloom, otherwise low; the
\* two agree.
C6_SeverityByRule ==
  /\ lab.sev # << >> => lab.sev[1] = SeverityRule(lab.labels)
  /\ lab.alert # << >> => lab.alert[1].severity = SeverityRule(lab.labels)
  /\ (lab.sev # << >> /\ lab.alert # << >>) => lab.sev[1] = lab.alert[1].severity

\* Algal bloom listed before flooding: both callers say high.
C6_BloomThenFlooding ==
  /\ lab.labels = << "possible_algal_bloom", "possible_flooding" >>
  /\ lab.sev = << "high" >>
  /\ lab.alert # << >>
  /\ lab.alert[1].severity = "high"

\* The orders in which the elements of S can be taken.
Orders(S) ==
  {p \in [1..Cardinality(S) -> S] :
     \A j, k \in 1..Cardinality(S) : p[j] = p[k] => j = k}

RECURSIVE Serial(_, _, _, _, _)
\* The update calls of the requests p[i], p[i+1], ... for station s run one
\* after the other on the windows bufs: the windows at the end, and what
\* each call returned (zs holds the returns of the calls before p[i]).
Serial(s, p, i, bufs, zs) ==
  IF i > Len(p) THEN [buffers |-> bufs, zs |-> zs]
  ELSE LET u == update(bufs, s, SampleOf(tasks[p[i]].sample))
       IN Serial(s, p, i + 1, u.buffers, Append(zs, u.z))

\* No handler has started and not returned.
Quiet == \A i \in 1..Len(tasks) : tasks[i].pc \in {"queued", "done"}

\* C7: whenever no handler is in progress, each station's windows, and the
\* z-scores every finished update of the station returned, are those of the
\* station's update calls run one after the other in some order.
C7_Linearizable ==
  Quiet =>
    \A s \in Stations :
      LET D == {i \in 1..Len(tasks) :
                  /\ tasks[i].pc = "done"
                  /\ tasks[i].station_id = s
                  /\ ~Truthy(tasks[i].anomaly)}
      IN \E p \in Orders(D) :
           LET r == Serial(s, p, 1, AsyncBuffers, << >>)
           IN /\ buffers[s] = r.buffers[s]
              /\ \A k \in 1..Len(p) : tasks[p[k]].z = r.zs[k]

\* Two requests with different readings for one station were in flight
\* together, both went through update past the warmup, both have returned.
C7_TwoOverlapped ==
  \E i, j \in 1..Len(tasks) :
    /\ i # j
    /\ tasks[i].station_id = tasks[j].station_id
    /\ tasks[i].pc = "done" /\ tasks[j].pc = "done"
    /\ ~Truthy(tasks[i].anomaly) /\ ~Truthy(tasks[j].anomaly)
    /\ tasks[i].sample # tasks[j].sample
    /\ tasks[i].overlapped
    /\ \E m \in Metrics : tasks[j].z[m] # Zero

====
